---- MODULE Spec2Model ----
(***************************************************************************)
(* The pendulum simulation core: BaseSimulation's lifecycle (init, step,   *)
(* reset, enableRecording, setParams, export), the three concrete models   *)
(* (SimplePendulum, DoublePendulum, NPendulum), the integrators with their *)
(* module-level scratch buffers, and the bounded export history; then the  *)
(* simulation store and the useSimulation hook that drives a model from    *)
(* the render loop.                                                        *)
(*                                                                         *)
(* Numbers.  A JavaScript number that takes part in the physics is         *)
(* abstracted to an element of the ring Z_Modulus, or NaN for every        *)
(* non-finite value; + - * / are the ring operations (a division by zero   *)
(* gives NaN, NaN propagates), Math.sin and Math.cos are fixed tables.     *)
(* Parameter values are kept as signed integers in hundredths (length 2 is *)
(* 200, gravity 9.81 is 981) and mapped into the ring where they are used. *)
(* Simulation time is kept exactly, as an integer number of ticks of       *)
(* 1/480 s (the fixed timesteps are 1/240 s = 2 ticks and 1/480 s = 1).    *)
(* IEEE rounding is outside the model.                                     *)
(*                                                                         *)
(* Arrays are sequences; source index i is index i + 1 here.  The per-body *)
(* phase series, which the code shares by reference, live in a heap.       *)
(***************************************************************************)
EXTENDS Integers, Sequences, FiniteSets, TLC

\* ------------------------------------------------------------------ bounds

\* Size of the ring that abstracts the doubles.
Modulus == 7

\* Steps the driver takes between two init/reset calls (caps time).
MaxSteps == 6

\* BaseSimulation.maxHistoryLength (10000 in the source) and the headroom of
\* the trim, the literal 1000 of slice(-maxHistoryLength + 1000), scaled down
\* so that truncation is reached; every formula is stated in these names.
maxHistoryLength == 4

TrimHeadroom == 2

\* The drivers change parameters within this many steps of a run's start.
SetParamsBy == 0

\* CLEANUP_INTERVAL_FRAMES of the store (60 in the source), scaled.
CLEANUP_INTERVAL_FRAMES == 2

\* The maxTrailLength the store starts with (500 in the source), scaled.
InitialTrailLength == 2

\* Frames the frame driver runs between two mounts or resets of the store.
MaxFrames == 4

\* Steps the second instance takes.
MaxPeerSteps == 3

\* ----------------------------------------------------------------- numbers

NaN == 0 - 1

Ring == 0 .. (Modulus - 1)

\* Reciprocal in the ring where there is one; any fixed value elsewhere.
RecipTable ==
  [b \in Ring |->
     IF \E y \in Ring : (b * y) % Modulus = 1
       THEN CHOOSE y \in Ring : (b * y) % Modulus = 1
       ELSE b]

Recip(b) == RecipTable[b]

IsNaN(a) == a = NaN

Add(a, b) == IF IsNaN(a) \/ IsNaN(b) THEN NaN ELSE (a + b) % Modulus

Sub(a, b) == IF IsNaN(a) \/ IsNaN(b) THEN NaN ELSE (a - b) % Modulus

Mul(a, b) == IF IsNaN(a) \/ IsNaN(b) THEN NaN ELSE (a * b) % Modulus

Div(a, b) ==
  IF IsNaN(a) \/ IsNaN(b) \/ b = 0 THEN NaN ELSE (a * Recip(b)) % Modulus

Neg(a) == Sub(0, a)

\* Math.sin, Math.cos: fixed tables on the ring, sin odd with sin 0 = 0,
\* cos even with cos 0 = 1.
Sin(a) == IF IsNaN(a) THEN NaN ELSE (a * (a * a + 2)) % Modulus

Cos(a) == IF IsNaN(a) THEN NaN ELSE (1 + 3 * a * a) % Modulus

\* An integer (a loop index, a count) as a number of the physics.
R(k) == k % Modulus

\* A parameter value in hundredths as a number of the physics.
FromHundredths(h) == Div(h % Modulus, 100 % Modulus)

\* A time step in ticks of 1/480 s as a number of the physics.
FromTicks(t) == Div(t % Modulus, 480 % Modulus)

\* --------------------------------------------------------------- sequences

Range(s) == {s[i] : i \in DOMAIN s}

\* array.slice(-k) for k >= 0: the last k elements, the whole array if shorter.
SliceLast(s, k) ==
  IF Len(s) <= k THEN s ELSE SubSeq(s, Len(s) - k + 1, Len(s))

\* array.slice(0, k)
SliceFirst(s, k) == SubSeq(s, 1, IF k < Len(s) THEN k ELSE Len(s))

\* array.slice(k)
SliceFrom(s, k) == SubSeq(s, k + 1, Len(s))

\* a[i] for a source index i: undefined (NaN in arithmetic) out of range.
At(a, i) == IF i >= 0 /\ i < Len(a) THEN a[i + 1] ELSE NaN

\* for (i = 0; i < n; i++) buf[i] = vals[i]: a JavaScript array grows when
\* written past its end.
WritePrefix(buf, vals) == vals \o SubSeq(buf, Len(vals) + 1, Len(buf))

Zeros(k) == [i \in 1 .. k |-> 0]

\* { ...a, ...b }
Merge(a, b) ==
  [k \in (DOMAIN a) \cup (DOMAIN b) |-> IF k \in DOMAIN b THEN b[k] ELSE a[k]]

NoParams == [k \in {} |-> 0]


\* ------------------------------------------------------------------ models

Kinds == {"simple", "double", "n"}

\* config.defaultParams of the three models, each value in hundredths
\* (Math.PI / 4 = 0.79, Math.PI / 2 = 1.57, Math.PI / 6 = 0.52).
DefaultParams(kind) ==
  CASE kind = "simple" ->
         [length |-> 200, mass |-> 100, gravity |-> 981, damping |-> 0,
          initialAngle |-> 79, initialVelocity |-> 0]
    [] kind = "double" ->
         [length1 |-> 150, length2 |-> 150, mass1 |-> 100, mass2 |-> 100,
          gravity |-> 981, damping |-> 0,
          initialAngle1 |-> 157, initialAngle2 |-> 157,
          initialVelocity1 |-> 0, initialVelocity2 |-> 0]
    [] OTHER ->
         [n |-> 300, segmentLength |-> 80, segmentMass |-> 100,
          gravity |-> 981, damping |-> 1, initialSpread |-> 52]

\* getDefaultParams(): params[key] = def.value for every entry of the config.
getDefaultParams(kind) == DefaultParams(kind)

\* config.physics.fixedTimestep, in ticks of 1/480 s: 1/240 s, 1/480 s, 1/480 s.
fixedTimestep(kind) == IF kind = "simple" THEN 2 ELSE 1

\* config.physics.integrationMethod
integrationMethod(kind) == "rk4"

\* The values the type of config.physics.integrationMethod allows.
Methods == {"euler", "verlet", "rk4"}

\* this.p.<key> as a number of the physics; a missing key reads undefined.
Param(s, key) ==
  IF key \in DOMAIN s.params THEN FromHundredths(s.params[key]) ELSE NaN

\* The private fields a model instance is constructed with.
DerivBufferInit(kind) ==
  CASE kind = "simple" -> Zeros(2)
    [] kind = "double" -> Zeros(4)
    [] OTHER -> Zeros(20)

AlphasBufferInit(kind) == IF kind = "n" THEN Zeros(10) ELSE <<>>

\* NPendulum.createInitialState's this.n = p.n, for whole-numbered p.n.
SegmentCount(s) ==
  IF s.kind = "n" /\ "n" \in DOMAIN s.params THEN s.params["n"] \div 100 ELSE s.n

\* createInitialState() of the three models, from this.params.
createInitialState(s) ==
  CASE s.kind = "simple" ->
         <<Param(s, "initialAngle"), Param(s, "initialVelocity")>>
    [] s.kind = "double" ->
         <<Param(s, "initialAngle1"), Param(s, "initialAngle2"),
           Param(s, "initialVelocity1"), Param(s, "initialVelocity2")>>
    [] OTHER ->
         LET n == SegmentCount(s)
             cnt == IF n > 0 THEN n ELSE 0
         IN [i \in 1 .. cnt |->
               Mul(Param(s, "initialSpread"), Sub(1, Div(R(i - 1), R(n))))]
            \o Zeros(cnt)

\* SimplePendulum.computeDerivatives: the buffer it returns.
SimpleDerivatives(s, state) ==
  LET theta == At(state, 0)
      omega == At(state, 1)
      alpha == Sub(Mul(Neg(Div(Param(s, "gravity"), Param(s, "length"))),
                       Sin(theta)),
                   Mul(Param(s, "damping"), omega))
  IN [derivBuffer |-> WritePrefix(s.derivBuffer, <<omega, alpha>>),
      alphasBuffer |-> s.alphasBuffer]

\* DoublePendulum.computeDerivatives: the buffer it returns.
DoubleDerivatives(s, state) ==
  LET theta1 == At(state, 0)
      theta2 == At(state, 1)
      omega1 == At(state, 2)
      omega2 == At(state, 3)
      L1 == Param(s, "length1")
      L2 == Param(s, "length2")
      m1 == Param(s, "mass1")
      m2 == Param(s, "mass2")
      g == Param(s, "gravity")
      damping == Param(s, "damping")
      delta == Sub(theta1, theta2)
      sinDelta == Sin(delta)
      cosDelta == Cos(delta)
      twoM1M2 == Add(Mul(2, m1), m2)
      common == Sub(twoM1M2, Mul(m2, Cos(Mul(2, delta))))
      denom1 == Mul(L1, common)
      denom2 == Mul(L2, common)
      w1sqL1 == Mul(Mul(omega1, omega1), L1)
      w2sqL2 == Mul(Mul(omega2, omega2), L2)
      num1 == Sub(Sub(Mul(Mul(Neg(g), twoM1M2), Sin(theta1)),
                      Mul(Mul(m2, g), Sin(Sub(theta1, Mul(2, theta2))))),
                  Mul(Mul(Mul(2, sinDelta), m2),
                      Add(w2sqL2, Mul(w1sqL1, cosDelta))))
      alpha1 == Sub(Div(num1, denom1), Mul(damping, omega1))
      num2 == Mul(Mul(2, sinDelta),
                  Add(Add(Mul(w1sqL1, Add(m1, m2)),
                          Mul(Mul(g, Add(m1, m2)), Cos(theta1))),
                      Mul(Mul(w2sqL2, m2), cosDelta)))
      alpha2 == Sub(Div(num2, denom2), Mul(damping, omega2))
  IN [derivBuffer |->
        WritePrefix(s.derivBuffer, <<omega1, omega2, alpha1, alpha2>>),
      alphasBuffer |-> s.alphasBuffer]

\* The iterations of for (let i = 0; i < n; i++) with n = this.n.
NLoop(s) == IF s.n > 0 THEN s.n ELSE 0

\* NPendulum.computeDerivatives: alpha of segment i (source index).
NAlpha(s, state, i) ==
  LET n == s.n
      theta_i == At(state, i)
      omega_i == At(state, n + i)
      gravityTerm ==
        Mul(Mul(Div(Param(s, "gravity"), Param(s, "segmentLength")),
                Sin(theta_i)),
            R(n - i))
      prev ==
        IF i > 0
          THEN LET omega_prev == At(state, n + i - 1)
               IN Div(Mul(Mul(omega_prev, omega_prev),
                          Sin(Sub(theta_i, At(state, i - 1)))), 2)
          ELSE 0
      next ==
        IF i < n - 1
          THEN LET omega_next == At(state, n + i + 1)
               IN Div(Mul(Mul(omega_next, omega_next),
                          Sin(Sub(At(state, i + 1), theta_i))), 2)
          ELSE 0
  IN Sub(Sub(Add(Sub(0, gravityTerm), prev), next),
         Mul(Param(s, "damping"), omega_i))

\* NPendulum.computeDerivatives: the two loops, the first filling
\* _alphasBuffer, the second _derivBuffer with [omegas..., alphas...].
NBuild(s, state, alphas) ==
  [derivBuffer |->
     WritePrefix(s.derivBuffer,
                 [i \in 1 .. NLoop(s) |-> At(state, s.n + i - 1)] \o alphas),
   alphasBuffer |-> WritePrefix(s.alphasBuffer, alphas)]

\* NPendulum.computeDerivatives: the buffers it leaves and returns.
NDerivatives(s, state) ==
  NBuild(s, state, [i \in 1 .. NLoop(s) |-> NAlpha(s, state, i - 1)])

\* computeDerivatives(t, state): t is ignored by the three models.  The
\* array returned is this._derivBuffer itself.
computeDerivatives(s, state) ==
  CASE s.kind = "simple" -> SimpleDerivatives(s, state)
    [] s.kind = "double" -> DoubleDerivatives(s, state)
    [] OTHER -> NDerivatives(s, state)

Vec(x, y) == [x |-> x, y |-> y, z |-> 0]

\* NPendulum.stateToPhysics: the running sums x, y, vx, vy after one more
\* segment, whose angle and angular velocity are th and om.
NLink(p, L, th, om) ==
  [x |-> Add(p.x, Mul(L, Sin(th))),
   y |-> Sub(p.y, Mul(L, Cos(th))),
   vx |-> Add(p.vx, Mul(Mul(L, om), Cos(th))),
   vy |-> Add(p.vy, Mul(Mul(L, om), Sin(th)))]

NChainNext(chain, L, th, om) ==
  Append(chain,
         NLink(IF Len(chain) = 0
                 THEN [x |-> 0, y |-> 0, vx |-> 0, vy |-> 0]
                 ELSE chain[Len(chain)],
               L, th, om))

\* The running sums after each of the first k segments, thetas being
\* state.slice(0, n) and omegas state.slice(n).
RECURSIVE NChain(_, _, _, _)
NChain(L, thetas, omegas, k) ==
  IF k = 0
    THEN <<>>
    ELSE NChainNext(NChain(L, thetas, omegas, k - 1), L,
                    At(thetas, k - 1), At(omegas, k - 1))

NChainOf(s, state) ==
  NChain(Param(s, "segmentLength"), SliceFirst(state, NLoop(s)),
         SliceFrom(state, NLoop(s)), NLoop(s))

NPhysics(time, chain) ==
  [time |-> time,
   positions |-> [k \in DOMAIN chain |-> Vec(chain[k].x, chain[k].y)],
   velocities |-> [k \in DOMAIN chain |-> Vec(chain[k].vx, chain[k].vy)]]

\* stateToPhysics(state) of the three models; time is this.time.
stateToPhysics(s, state) ==
  CASE s.kind = "simple" ->
         LET theta == At(state, 0)
             omega == At(state, 1)
             L == Param(s, "length")
             v == Mul(L, omega)
         IN [time |-> s.time,
             positions |-> <<Vec(Add(0, Mul(L, Sin(theta))),
                                 Sub(0, Mul(L, Cos(theta))))>>,
             velocities |-> <<Vec(Mul(v, Cos(theta)), Mul(v, Sin(theta)))>>]
    [] s.kind = "double" ->
         LET theta1 == At(state, 0)
             theta2 == At(state, 1)
             omega1 == At(state, 2)
             omega2 == At(state, 3)
             L1 == Param(s, "length1")
             L2 == Param(s, "length2")
             x1 == Mul(L1, Sin(theta1))
             y1 == Mul(Neg(L1), Cos(theta1))
             x2 == Add(x1, Mul(L2, Sin(theta2)))
             y2 == Sub(y1, Mul(L2, Cos(theta2)))
             vx1 == Mul(Mul(L1, omega1), Cos(theta1))
             vy1 == Mul(Mul(L1, omega1), Sin(theta1))
             vx2 == Add(vx1, Mul(Mul(L2, omega2), Cos(theta2)))
             vy2 == Add(vy1, Mul(Mul(L2, omega2), Sin(theta2)))
         IN [time |-> s.time,
             positions |-> <<Vec(x1, y1), Vec(x2, y2)>>,
             velocities |-> <<Vec(vx1, vy1), Vec(vx2, vy2)>>]
    [] OTHER -> NPhysics(s.time, NChainOf(s, state))

\* NPendulum.getEnergy: kinetic and potential summed over the first k
\* segments, m and mg being segmentMass and segmentMass * gravity.
RECURSIVE NKinetic(_, _, _)
NKinetic(chain, m, k) ==
  IF k = 0
    THEN 0
    ELSE Add(NKinetic(chain, m, k - 1),
             Mul(Div(m, 2), Add(Mul(chain[k].vx, chain[k].vx),
                                Mul(chain[k].vy, chain[k].vy))))

RECURSIVE NPotential(_, _, _, _)
NPotential(chain, mg, L, k) ==
  IF k = 0
    THEN 0
    ELSE Add(NPotential(chain, mg, L, k - 1),
             Mul(mg, Add(chain[k].y, Mul(R(k), L))))

Energy(k, p) == [kinetic |-> k, potential |-> p, total |-> Add(k, p)]

NEnergyOf(s, chain) ==
  Energy(NKinetic(chain, Param(s, "segmentMass"), Len(chain)),
         NPotential(chain,
                    Mul(Param(s, "segmentMass"), Param(s, "gravity")),
                    Param(s, "segmentLength"), Len(chain)))

\* getEnergy() of the three models, from this.state and this.params.
getEnergy(s) ==
  CASE s.kind = "simple" ->
         LET theta == At(s.state, 0)
             omega == At(s.state, 1)
             L == Param(s, "length")
             m == Param(s, "mass")
             Lw == Mul(L, omega)
             h == Mul(L, Sub(1, Cos(theta)))
         IN Energy(Mul(Div(m, 2), Mul(Lw, Lw)),
                   Mul(Mul(m, Param(s, "gravity")), h))
    [] s.kind = "double" ->
         LET theta1 == At(s.state, 0)
             theta2 == At(s.state, 1)
             omega1 == At(s.state, 2)
             omega2 == At(s.state, 3)
             L1 == Param(s, "length1")
             L2 == Param(s, "length2")
             m1 == Param(s, "mass1")
             m2 == Param(s, "mass2")
             g == Param(s, "gravity")
             y1 == Mul(Neg(L1), Cos(theta1))
             y2 == Sub(y1, Mul(L2, Cos(theta2)))
             L1w1 == Mul(L1, omega1)
             L2w2 == Mul(L2, omega2)
             v1Sq == Mul(L1w1, L1w1)
             v2Sq == Add(Add(Mul(L1w1, L1w1), Mul(L2w2, L2w2)),
                         Mul(Mul(Mul(Mul(Mul(2, L1), L2), omega1), omega2),
                             Cos(Sub(theta1, theta2))))
         IN Energy(Add(Mul(Div(m1, 2), v1Sq), Mul(Div(m2, 2), v2Sq)),
                   Add(Mul(Mul(m1, g), Add(y1, L1)),
                       Mul(Mul(m2, g), Add(Add(y2, L1), L2))))
    [] OTHER -> NEnergyOf(s, NChainOf(s, s.state))

PhasePoint(a, w, t) == [angle |-> a, angularVelocity |-> w, time |-> t]

\* NPendulum.getPhaseSpace: thetas.map((theta, i) => ...)
NPhase(thetas, omegas, time) ==
  [i \in 1 .. Len(thetas) |-> PhasePoint(thetas[i], At(omegas, i - 1), time)]

\* getPhaseSpace() of the three models.
getPhaseSpace(s) ==
  CASE s.kind = "simple" ->
         <<PhasePoint(At(s.state, 0), At(s.state, 1), s.time)>>
    [] s.kind = "double" ->
         <<PhasePoint(At(s.state, 0), At(s.state, 2), s.time),
           PhasePoint(At(s.state, 1), At(s.state, 3), s.time)>>
    [] OTHER ->
         NPhase(SliceFirst(s.state, NLoop(s)), SliceFrom(s.state, NLoop(s)),
                s.time)

\* -------------------------------------------------------------- integrators

\* The module-level pre-allocated buffers of utils/physics: new Array(20).fill(0).
ScratchInit ==
  [euler_result |-> Zeros(20),
   rk4_k1 |-> Zeros(20), rk4_k2 |-> Zeros(20), rk4_k3 |-> Zeros(20),
   rk4_k4 |-> Zeros(20), rk4_temp |-> Zeros(20), rk4_result |-> Zeros(20)]

\* this with the buffers computeDerivatives left behind.
WithBuffers(s, d) ==
  [s EXCEPT !.derivBuffer = d.derivBuffer, !.alphasBuffer = d.alphasBuffer]

\* The first n elements read from the array a derivative call returned.
Read(src, n) == [i \in 1 .. n |-> At(src, i - 1)]

\* An integrator call in progress: the instance and the scratch buffers.
Call(s, sc) == [sim |-> s, scratch |-> sc]

\* k = derivatives(..) kept by reference: the four stages are the one array
\* the derivative function reuses, so each call overwrites them all.
Keep_aliased(a, d, n, buf) ==
  [sim |-> WithBuffers(a.sim, d),
   scratch |-> [a.scratch EXCEPT
     !.rk4_k1 = WritePrefix(@, Read(d.derivBuffer, n)),
     !.rk4_k2 = WritePrefix(@, Read(d.derivBuffer, n)),
     !.rk4_k3 = WritePrefix(@, Read(d.derivBuffer, n)),
     !.rk4_k4 = WritePrefix(@, Read(d.derivBuffer, n))]]

\* for (i < n) buf[i] = src[i], src being the array a derivative call returned
\* and left in the instance.
Keep(a, d, n, buf) ==
  [sim |-> WithBuffers(a.sim, d),
   scratch |-> [a.scratch EXCEPT ![buf] = WritePrefix(@, Read(d.derivBuffer, n))]]

\* kSrc = derivatives(.., y); for (i < n) buf[i] = kSrc[i]
Slope(a, y, n, buf) == Keep(a, computeDerivatives(a.sim, y), n, buf)

\* for (i < n) _rk4_temp[i] = state[i] + c * buf[i]
Temp(a, state, c, buf) ==
  [a EXCEPT !.scratch.rk4_temp =
     WritePrefix(@, [i \in 1 .. Len(state) |->
                      Add(state[i], Mul(c, a.scratch[buf][i]))])]

\* for (i < n) _rk4_result[i] = state[i] + dt6 * (k1 + 2 k2 + 2 k3 + k4)
Combine(a, state, dt6) ==
  [a EXCEPT !.scratch.rk4_result =
     WritePrefix(@, [i \in 1 .. Len(state) |->
       Add(state[i],
           Mul(dt6, Add(Add(Add(a.scratch.rk4_k1[i],
                                Mul(2, a.scratch.rk4_k2[i])),
                            Mul(2, a.scratch.rk4_k3[i])),
                        a.scratch.rk4_k4[i])))])]

\* return buf: the whole pre-allocated buffer instead of its first n elements.
Return_whole(a, n, buf) ==
  [state |-> a.scratch[buf], scratch |-> a.scratch, sim |-> a.sim]

\* return buf.slice(0, n)
Return(a, n, buf) ==
  [state |-> SliceFirst(a.scratch[buf], n), scratch |-> a.scratch,
   sim |-> a.sim]

\* for (i < n) _euler_result[i] = state[i] + d[i] * dt
EulerUpdate(a, d, state, h) ==
  [sim |-> WithBuffers(a.sim, d),
   scratch |-> [a.scratch EXCEPT !.euler_result =
     WritePrefix(@, [i \in 1 .. Len(state) |->
                      Add(state[i], Mul(At(d.derivBuffer, i - 1), h))])]]

\* euler(state, t, dt, derivatives), derivatives being this.computeDerivatives:
\* the state returned, the scratch buffers and the instance as the call
\* leaves them.
euler(s, sc, state, t, dt) ==
  Return(EulerUpdate(Call(s, sc), computeDerivatives(s, state), state,
                     FromTicks(dt)),
         Len(state), "euler_result")

\* The accelerations argument of verlet for a model whose state vector is the
\* positions followed by the velocities: the second half of what
\* computeDerivatives returns, as an array of its own.
Accelerations(s, pos, vel) ==
  [i \in 1 .. Len(pos) |->
     At(computeDerivatives(s, pos \o vel).derivBuffer, Len(pos) + i - 1)]

\* positions.map((p, i) => p + velocities[i] * dt + 0.5 * a[i] * dt * dt)
VerletPositions(positions, velocities, a, h) ==
  [i \in 1 .. Len(positions) |->
     Add(Add(positions[i], Mul(At(velocities, i - 1), h)),
         Mul(Mul(Mul(Div(1, 2), At(a, i - 1)), h), h))]

\* velocities.map((v, i) => v + 0.5 * (a[i] + newA[i]) * dt)
VerletVelocities(velocities, a, newA, h) ==
  [i \in 1 .. Len(velocities) |->
     Add(velocities[i],
         Mul(Mul(Div(1, 2), Add(At(a, i - 1), At(newA, i - 1))), h))]

VerletResult(s, velocities, a, newPositions, h) ==
  [positions |-> newPositions,
   velocities |-> VerletVelocities(velocities, a,
                    Accelerations(s, newPositions, velocities), h)]

VerletFrom(s, positions, velocities, a, h) ==
  VerletResult(s, velocities, a,
               VerletPositions(positions, velocities, a, h), h)

\* verlet(positions, velocities, dt, accelerations)
verlet(s, positions, velocities, dt) ==
  VerletFrom(s, positions, velocities,
             Accelerations(s, positions, velocities), FromTicks(dt))

\* kSrc = derivatives(.., _rk4_temp); for (i < n) buf[i] = kSrc[i]
SlopeAtTemp(a, n, buf) ==
  Keep(a, computeDerivatives(a.sim, a.scratch.rk4_temp), n, buf)

\* k1 taken from the k4 the previous call left in the buffer (first same as
\* last) instead of a derivative call.
Rk4K1_reused(a, state, n) == [a EXCEPT !.scratch.rk4_k1 = a.scratch.rk4_k4]

\* k1 = f(t, y)
Rk4K1(a, state, n) == Slope(a, state, n, "rk4_k1")

\* temp = y + dt/2 * k1, then k2 = f(t + dt/2, temp)
Rk4K2(a, state, n, h) ==
  SlopeAtTemp(Temp(Rk4K1(a, state, n), state, Div(h, 2), "rk4_k1"),
              n, "rk4_k2")

\* temp = y + dt/2 * k2, then k3 = f(t + dt/2, temp)
Rk4K3(a, state, n, h) ==
  SlopeAtTemp(Temp(Rk4K2(a, state, n, h), state, Div(h, 2), "rk4_k2"),
              n, "rk4_k3")

\* temp = y + dt * k3, then k4 = f(t + dt, temp)
Rk4K4(a, state, n, h) ==
  SlopeAtTemp(Temp(Rk4K3(a, state, n, h), state, h, "rk4_k3"), n, "rk4_k4")

\* rk4(state, t, dt, derivatives), derivatives being this.computeDerivatives.
rk4(s, sc, state, t, dt) ==
  Return(Combine(Rk4K4(Call(s, sc), state, Len(state), FromTicks(dt)),
                 state, Div(FromTicks(dt), 6)),
         Len(state), "rk4_result")

\* A stage of rk4 that leaves _rk4_temp as it finds it.
Rk4Stage_stale(a, state, n, h, stage) ==
  CASE stage = 0 -> Slope(a, state, n, "rk4_k1")
    [] stage = 1 -> SlopeAtTemp(a, n, "rk4_k2")
    [] stage = 2 -> SlopeAtTemp(a, n, "rk4_k3")
    [] stage = 3 -> SlopeAtTemp(a, n, "rk4_k4")
    [] OTHER -> Combine(a, state, Div(h, 6))

\* The statements of rk4 a stage at a time, on the buffers as they are when
\* the stage begins: stage 0 is k1; stages 1 to 3 are a loop that writes
\* _rk4_temp, the derivative call on it and the loop that copies its result
\* to k2, k3, k4; stage 4 is the loop that writes _rk4_result.
Rk4Stage(a, state, n, h, stage) ==
  CASE stage = 0 -> Slope(a, state, n, "rk4_k1")
    [] stage = 1 ->
         SlopeAtTemp(Temp(a, state, Div(h, 2), "rk4_k1"), n, "rk4_k2")
    [] stage = 2 ->
         SlopeAtTemp(Temp(a, state, Div(h, 2), "rk4_k2"), n, "rk4_k3")
    [] stage = 3 -> SlopeAtTemp(Temp(a, state, h, "rk4_k3"), n, "rk4_k4")
    [] OTHER -> Combine(a, state, Div(h, 6))

\* ---------------------------------------------------------- BaseSimulation

\* A model instance as its constructor leaves it.
NewSim(kind) ==
  [kind |-> kind,
   method |-> integrationMethod(kind),
   time |-> 0,
   state |-> <<>>,
   initialState |-> <<>>,
   params |-> NoParams,
   timeHistory |-> <<>>,
   positionHistory |-> <<>>,
   velocityHistory |-> <<>>,
   energyHistory |-> <<>>,
   phaseHistory |-> <<>>,
   recordingEnabled |-> FALSE,
   n |-> 3,
   derivBuffer |-> DerivBufferInit(kind),
   alphasBuffer |-> AlphasBufferInit(kind)]

\* The least k addresses the heap does not use.
RECURSIVE FreshAddrs(_, _)
FreshAddrs(used, k) ==
  IF k = 0
    THEN <<>>
    ELSE LET a == CHOOSE x \in 0 .. Cardinality(used) :
                    x \notin used /\ \A y \in 0 .. (x - 1) : y \in used
         IN <<a>> \o FreshAddrs(used \cup {a}, k - 1)

\* The heap with the arrays vals stored at the addresses addrs.
Store(h, addrs, vals) ==
  [a \in (DOMAIN h) \cup Range(addrs) |->
     IF \E i \in DOMAIN addrs : addrs[i] = a
       THEN vals[CHOOSE i \in DOMAIN addrs : addrs[i] = a]
       ELSE h[a]]

\* clearHistory()
clearHistory(s) ==
  [s EXCEPT !.timeHistory = <<>>, !.positionHistory = <<>>,
            !.velocityHistory = <<>>, !.energyHistory = <<>>,
            !.phaseHistory = <<>>]

\* this.state = this.createInitialState(); this.initialState = [...this.state]
WithState(s, state) == [s EXCEPT !.state = state, !.initialState = state]

\* createInitialState() as init calls it: NPendulum's sets this.n first.
Create(s) == WithState(s, createInitialState(s))

\* createInitialState without its this.n = p.n line.
WithCount_kept(s, n) == s

\* this.n = p.n
WithCount(s, n) == [s EXCEPT !.n = n]

\* init merging p over the current parameters instead of the defaults.
init_overCurrent(s, p) ==
  clearHistory(Create(WithCount(
    [s EXCEPT !.params = Merge(s.params, p), !.time = 0],
    SegmentCount([s EXCEPT !.params = Merge(s.params, p)]))))

\* init(params)
init(s, p) ==
  clearHistory(Create(WithCount(
    [s EXCEPT !.params = Merge(getDefaultParams(s.kind), p), !.time = 0],
    SegmentCount([s EXCEPT !.params = Merge(getDefaultParams(s.kind), p)]))))

\* An instance with the heap its phase series live in.
InHeap(s, h) == [sim |-> s, heap |-> h]

\* The trim without its phaseHistory line: the phase series stay as they are.
Trim_phaseKept(s, h, keep, addrs) ==
  InHeap([s EXCEPT !.timeHistory = SliceLast(@, keep),
                   !.positionHistory = SliceLast(@, keep),
                   !.velocityHistory = SliceLast(@, keep),
                   !.energyHistory = SliceLast(@, keep)],
         h)

\* The trim with slice(0, keep): the oldest samples kept, the newest dropped.
Trim_oldest(s, h, keep, addrs) ==
  InHeap([s EXCEPT !.timeHistory = SliceFirst(@, keep),
                   !.positionHistory = SliceFirst(@, keep),
                   !.velocityHistory = SliceFirst(@, keep),
                   !.energyHistory = SliceFirst(@, keep),
                   !.phaseHistory = addrs],
         Store(h, addrs,
               [i \in 1 .. Len(s.phaseHistory) |->
                  SliceFirst(h[s.phaseHistory[i]], keep)]))

\* The trim of recordHistory: every buffer cut to its most recent
\* maxHistoryLength - TrimHeadroom samples; map(h => h.slice(..)) makes new
\* phase arrays, stored at addrs.
Trim(s, h, keep, addrs) ==
  InHeap([s EXCEPT !.timeHistory = SliceLast(@, keep),
                   !.positionHistory = SliceLast(@, keep),
                   !.velocityHistory = SliceLast(@, keep),
                   !.energyHistory = SliceLast(@, keep),
                   !.phaseHistory = addrs],
         Store(h, addrs,
               [i \in 1 .. Len(s.phaseHistory) |->
                  SliceLast(h[s.phaseHistory[i]], keep)]))

\* The trim with slice(-maxHistoryLength): nothing is dropped.
TrimHistory_full(s, h) ==
  Trim(s, h, maxHistoryLength, FreshAddrs(DOMAIN h, Len(s.phaseHistory)))

\* The trim with slice(-maxHistoryLength + 1): only the oldest sample goes.
TrimHistory_one(s, h) ==
  Trim(s, h, maxHistoryLength - 1, FreshAddrs(DOMAIN h, Len(s.phaseHistory)))

TrimHistory(s, h) ==
  Trim(s, h, maxHistoryLength - TrimHeadroom,
       FreshAddrs(DOMAIN h, Len(s.phaseHistory)))

\* p pushed in place onto the series at series[i], for each point p of phase.
PushEach(h, series, phase) ==
  [a \in DOMAIN h |->
     IF \E i \in 1 .. Len(phase) : series[i] = a
       THEN Append(h[a], phase[CHOOSE i \in 1 .. Len(phase) : series[i] = a])
       ELSE h[a]]

\* if (!this.phaseHistory[i]) this.phaseHistory[i] = [], the new arrays
\* stored at made.
MakeSeries(s, h, phase, made) ==
  InHeap([s EXCEPT !.phaseHistory = @ \o made],
         PushEach(Store(h, made, [i \in DOMAIN made |-> <<>>]),
                  s.phaseHistory \o made, phase))

\* The phase.forEach of recordHistory.
PushPhase(s, h, phase) ==
  MakeSeries(s, h, phase,
             FreshAddrs(DOMAIN h,
                        IF Len(phase) > Len(s.phaseHistory)
                          THEN Len(phase) - Len(s.phaseHistory)
                          ELSE 0))

\* The four pushes of recordHistory, then the phase points.
PushSample(t, physics, energy, phase) ==
  PushPhase([t.sim EXCEPT !.timeHistory = Append(@, physics.time),
                          !.positionHistory = Append(@, physics.positions),
                          !.velocityHistory = Append(@, physics.velocities),
                          !.energyHistory = Append(@, energy)],
            t.heap, phase)

\* recordHistory without its first line, the return when recording is off.
recordHistory_unguarded(s, h, physics) ==
  PushSample(IF Len(s.timeHistory) >= maxHistoryLength
               THEN TrimHistory(s, h)
               ELSE InHeap(s, h),
             physics, getEnergy(s), getPhaseSpace(s))

\* recordHistory(physics)
recordHistory(s, h, physics) ==
  IF ~s.recordingEnabled
    THEN InHeap(s, h)
    ELSE PushSample(IF Len(s.timeHistory) >= maxHistoryLength
                      THEN TrimHistory(s, h)
                      ELSE InHeap(s, h),
                    physics, getEnergy(s), getPhaseSpace(s))

\* const actualDt = dt || fixedTimestep
ActualDt_callerFirst(kind, dt) ==
  IF dt # 0 THEN dt ELSE fixedTimestep(kind)

\* const actualDt = dt
ActualDt_asGiven(kind, dt) == dt

\* const actualDt = fixedTimestep || dt
ActualDt(kind, dt) ==
  IF fixedTimestep(kind) # 0 THEN fixedTimestep(kind) ELSE dt

\* The switch of step: the integrator named by integrationMethod, rk4 by
\* default.
Integrate(s, sc, actualDt) ==
  IF s.method = "euler"
    THEN euler(s, sc, s.state, s.time, actualDt)
    ELSE rk4(s, sc, s.state, s.time, actualDt)

\* this.state = <the integrator's result>; this.time += actualDt
Advance(r, time) == [r.sim EXCEPT !.state = r.state, !.time = time]

Returned(rec, sc, physicsState) ==
  [sim |-> rec.sim, scratch |-> sc, heap |-> rec.heap, out |-> physicsState]

\* const physicsState = ...; this.recordHistory(physicsState); return it
Finish(s1, sc, h, physicsState) ==
  Returned(recordHistory(s1, h, physicsState), sc, physicsState)

Observe(s1, sc, h) == Finish(s1, sc, h, stateToPhysics(s1, s1.state))

Integrated(r, time, h) == Observe(Advance(r, time), r.scratch, h)

\* step(dt): the instance, the scratch buffers and the heap as the call
\* leaves them, and the PhysicsState it returns.
step(s, sc, h, dt) ==
  Integrated(Integrate(s, sc, ActualDt(s.kind, dt)),
             s.time + ActualDt(s.kind, dt), h)

\* enableRecording clearing only when recording was off.
enableRecording_whenOff(s, enabled) ==
  IF enabled /\ ~s.recordingEnabled
    THEN clearHistory([s EXCEPT !.recordingEnabled = enabled])
    ELSE [s EXCEPT !.recordingEnabled = enabled]

\* enableRecording without the clearHistory call.
enableRecording_keep(s, enabled) == [s EXCEPT !.recordingEnabled = enabled]

\* enableRecording(enabled)
enableRecording(s, enabled) ==
  IF enabled
    THEN clearHistory([s EXCEPT !.recordingEnabled = enabled])
    ELSE [s EXCEPT !.recordingEnabled = enabled]

\* reset without the restore of the state vector.
reset_keepState(s) == clearHistory([s EXCEPT !.time = 0])

\* reset without this.time = 0.
reset_keepTime(s) == clearHistory([s EXCEPT !.state = s.initialState])

\* reset without the clearHistory call.
reset_keepHistory(s) == [s EXCEPT !.time = 0, !.state = s.initialState]

\* reset that also turns recording off.
reset_stopRecording(s) ==
  clearHistory([s EXCEPT !.time = 0, !.state = s.initialState,
                         !.recordingEnabled = FALSE])

\* reset()
reset(s) == clearHistory([s EXCEPT !.time = 0, !.state = s.initialState])

\* setParams(params)
setParams(s, p) == [s EXCEPT !.params = Merge(s.params, p)]

\* export(): the spreads copy the five outer arrays; phaseSpace holds the
\* addresses of the per-body series themselves (<<>> stands for undefined).
export(s) ==
  [meta |-> s.kind,
   params |-> s.params,
   timeSeries |-> [time |-> s.timeHistory,
                   positions |-> s.positionHistory,
                   velocities |-> s.velocityHistory,
                   energy |-> s.energyHistory],
   phaseSpace |-> IF Len(s.phaseHistory) > 0 THEN s.phaseHistory ELSE <<>>]

\* getTime()
getTime(s) == s.time

\* getParams()
getParams(s) == s.params

\* ------------------------------------------------------- simulationStore

\* Times of the store are counted in units of 1/4800 s (a tenth of a tick),
\* speeds in tenths; a frame delta of d ticks at speed v advances the elapsed
\* time by d * v units.

\* const MAX_DATA_AGE_SECONDS = 30
MAX_DATA_AGE_SECONDS == 30

\* The state of the store when it is created.
NewStore ==
  [isPlaying |-> FALSE,
   speed |-> 10,
   elapsedTime |-> 0,
   frameCount |-> 0,
   physicsState |-> <<>>,
   energy |-> [kinetic |-> 0, potential |-> 0, total |-> 0],
   trails |-> <<>>,
   phaseSpace |-> <<>>,
   maxTrailLength |-> InitialTrailLength]

\* setSpeed storing the speed it is given, without the clamp.
setSpeed_unclamped(st, speed) == [st EXCEPT !.speed = speed]

\* Math.max(0.1, Math.min(10, speed)), in tenths.
setSpeed(st, speed) ==
  [st EXCEPT !.speed = IF speed > 100 THEN 100
                       ELSE IF speed < 1 THEN 1 ELSE speed]

\* filterByTime(data, currentTime, maxAge): StartIdx is the least index i with
\* data[i].time >= cutoff (the times of the data being in ticks), 0 if the
\* loop reaches the end without finding one.
filterByTime(data, currentTime, maxAge) ==
  LET RECURSIVE StartIdx(_)
      StartIdx(from) ==
        IF from > Len(data)
          THEN 0
          ELSE IF 10 * data[from].time >= currentTime - maxAge
                 THEN from
                 ELSE StartIdx(from + 1)
  IN IF Len(data) = 0
       THEN data
       ELSE IF StartIdx(1) = 0
              THEN <<>>
              ELSE SliceFrom(data, StartIdx(1) - 1)

\* array.slice(-k): the last k elements for k > 0, the whole array for k = 0
\* (-0 is 0), the elements from index -k on for k < 0.
SliceNeg(s, k) ==
  IF k > 0 THEN SliceLast(s, k)
  ELSE IF k = 0 THEN s
  ELSE SliceFrom(s, IF 0 - k < Len(s) THEN 0 - k ELSE Len(s))

\* The body of points.forEach in addTrailPoints and addPhasePoints, for one
\* series: push, the periodic cleanup, the hard cap.
Pushed(series, point, shouldCleanup, elapsedTime, max) ==
  LET pushed == Append(series, point)
      cleaned ==
        IF shouldCleanup /\ Len(pushed) > 0
          THEN filterByTime(pushed, elapsedTime, MAX_DATA_AGE_SECONDS * 4800)
          ELSE pushed
  IN IF Len(cleaned) > max THEN SliceNeg(cleaned, max) ELSE cleaned

\* points.forEach((point, i) => ...) over the series of the store.
AddPoints(all, points, shouldCleanup, elapsedTime, max) ==
  [i \in 1 .. (IF Len(all) > Len(points) THEN Len(all) ELSE Len(points)) |->
     IF i > Len(points)
       THEN all[i]
       ELSE Pushed(IF i > Len(all) THEN <<>> ELSE all[i], points[i],
                   shouldCleanup, elapsedTime, max)]

\* addTrailPoints(points)
addTrailPoints(st, points) ==
  IF st.frameCount % 2 # 0
    THEN st
    ELSE [st EXCEPT !.trails =
            AddPoints(@, points, st.frameCount % CLEANUP_INTERVAL_FRAMES = 0,
                      st.elapsedTime, st.maxTrailLength)]

\* addPhasePoints(points)
addPhasePoints(st, points) ==
  IF st.frameCount % 2 # 0
    THEN st
    ELSE [st EXCEPT !.phaseSpace =
            AddPoints(@, points, st.frameCount % CLEANUP_INTERVAL_FRAMES = 0,
                      st.elapsedTime, st.maxTrailLength)]

clearTrails(st) == [st EXCEPT !.trails = <<>>, !.phaseSpace = <<>>]

\* tick(dt), dt in ticks
tick(st, dt) ==
  IF ~st.isPlaying
    THEN st
    ELSE [st EXCEPT !.elapsedTime = @ + dt * st.speed,
                    !.frameCount = @ + 1]

\* ------------------------------------------------------------------ driver

VARIABLES
  sim,          \* the model instance
  scratch,      \* the integrators' module-level buffers
  heap,         \* the per-body phase series arrays, by address
  returned,     \* the PhysicsState the last step call returned, if any
  exports,      \* the ExportData the caller holds, if any
  answer,       \* the getter the caller called last and what it returned
  held,         \* the sample of the history made of the returned vectors, or 0
  store,        \* the simulation store
  hook,         \* useSimulation: its state and refs
  peer,         \* a second model instance that uses the same buffers, if any
  flight,       \* an rk4 invocation on the instance that has not returned yet
  stepCount,    \* history: step calls since the last init or reset
  recSteps,     \* history: steps of the recording run in progress, or -1
  snapshot,     \* history: the state vector the last init created
  twin,         \* history: a new instance given the last init, and its buffers
  twinOut,      \* history: what the twin's last step returned
  runTrace,     \* history: what the steps since the last init or reset returned
  refTrace,     \* history: the longest earlier run since the last init
  sameParams,   \* history: no setParams since the last init
  exportSnap    \* history: the contents of the held ExportData when returned

vars ==
  <<sim, scratch, heap, returned, exports, answer, held, store, hook,
    peer, flight, stepCount, recSteps, snapshot,
    twin, twinOut, runTrace, refTrace, sameParams, exportSnap>>

\* The history variables, by the driver that maintains them.
recordingVars == <<recSteps, snapshot>>

twinVars == <<twin, twinOut>>

traceVars == <<runTrace, refTrace, sameParams>>

exportVars == <<exports, exportSnap>>

\* The store and the hook, which only the frame driver runs.
uiVars == <<store, hook>>

\* The second instance and the invocation in progress, which only the
\* drivers of the shared buffers run.
poolVars == <<peer, flight>>

\* useSimulation before its effects have run.
NewHook ==
  [mounted |-> FALSE, physicsState |-> <<>>,
   energy |-> [kinetic |-> 0, potential |-> 0, total |-> 0],
   lastParams |-> <<>>]

\* The parameter objects the drivers pass to init.
InitInputs(kind) ==
  CASE kind = "simple" ->
         {NoParams, [initialAngle |-> 157, length |-> 100]}
    [] kind = "double" ->
         {NoParams, [initialAngle1 |-> 79, mass2 |-> 200]}
    [] OTHER ->
         {NoParams, [n |-> 200, initialSpread |-> 79]}

\* The parameter objects the drivers pass to setParams.
SetInputs(kind) ==
  CASE kind = "simple" -> {[gravity |-> 162]}
    [] kind = "double" -> {[length1 |-> 100]}
    [] OTHER -> {[n |-> 400, damping |-> 0]}

\* The dt the drivers pass to step: 0 and 1/60 s.
DtInputs == {0, 8}

EmptyHeap == [a \in {} |-> <<>>]

\* The arrays the instance or the caller's ExportData still reference.
Roots(s, ex) ==
  Range(s.phaseHistory) \cup UNION {Range(ex[i].phaseSpace) : i \in DOMAIN ex}

Collect(h, s, ex) == [a \in (DOMAIN h) \cap Roots(s, ex) |-> h[a]]

\* Every array reachable from an ExportData, with its contents.
Contents(e, h) ==
  [timeSeries |-> e.timeSeries,
   phaseSpace |-> [i \in DOMAIN e.phaseSpace |-> h[e.phaseSpace[i]]]]

Init ==
  \E kind \in Kinds :
    /\ sim = NewSim(kind)
    /\ scratch = ScratchInit
    /\ heap = EmptyHeap
    /\ returned = <<>>
    /\ exports = <<>>
    /\ answer = <<>>
    /\ held = 0
    /\ store = NewStore
    /\ hook = NewHook
    /\ peer = <<>>
    /\ flight = <<>>
    /\ stepCount = 0
    /\ recSteps = 0 - 1
    /\ snapshot = <<>>
    /\ twin = [sim |-> NewSim(kind), scratch |-> ScratchInit]
    /\ twinOut = <<>>
    /\ runTrace = <<>>
    /\ refTrace = <<>>
    /\ sameParams = TRUE
    /\ exportSnap = <<>>

\* this.positionHistory.push([...physics.positions]): a new array of the
\* Vector3 objects of the PhysicsState that step returns, so the sample
\* pushed last is made of the caller's vectors; none when recording is off.
SharedSample(s) == IF s.recordingEnabled THEN Len(s.positionHistory) ELSE 0

\* vector.x = v seen through the history sample that holds the same vector.
Written(s, sample, v) ==
  IF sample > 0 THEN [s EXCEPT !.positionHistory[sample][1].x = v] ELSE s

\* The six operations on the program's own state.

OpInit(p) ==
  /\ UNCHANGED <<uiVars, poolVars>>
  /\ sim' = init(sim, p)
  /\ heap' = Collect(heap, sim', exports)
  /\ stepCount' = 0
  /\ answer' = <<>>
  /\ held' = 0
  /\ UNCHANGED <<scratch, returned>>

OpStep(dt) ==
  /\ UNCHANGED <<uiVars, poolVars>>
  /\ stepCount < MaxSteps
  /\ \E r \in {step(sim, scratch, heap, dt)} :
       /\ sim' = r.sim
       /\ scratch' = r.scratch
       /\ heap' = Collect(r.heap, r.sim, exports)
       /\ returned' = <<r.out>>
       /\ held' = SharedSample(r.sim)
  /\ stepCount' = stepCount + 1
  /\ answer' = <<>>

OpReset ==
  /\ UNCHANGED <<uiVars, poolVars>>
  /\ sim' = reset(sim)
  /\ heap' = Collect(heap, sim', exports)
  /\ stepCount' = 0
  /\ answer' = <<>>
  /\ held' = 0
  /\ UNCHANGED <<scratch, returned>>

OpEnableRecording(enabled) ==
  /\ UNCHANGED <<uiVars, poolVars>>
  /\ sim' = enableRecording(sim, enabled)
  /\ heap' = Collect(heap, sim', exports)
  /\ answer' = <<>>
  /\ held' = IF enabled THEN 0 ELSE held
  /\ UNCHANGED <<scratch, returned, stepCount>>

OpSetParams(p) ==
  /\ UNCHANGED <<uiVars, poolVars>>
  /\ stepCount <= SetParamsBy
  /\ sim' = setParams(sim, p)
  /\ answer' = <<>>
  /\ UNCHANGED <<scratch, heap, returned, held, stepCount>>

OpExport ==
  /\ UNCHANGED <<uiVars, poolVars>>
  /\ exports' = <<export(sim)>>
  /\ heap' = Collect(heap, sim, exports')
  /\ answer' = <<>>
  /\ UNCHANGED <<sim, scratch, returned, held, stepCount>>

\* The caller assigns physicsState.positions[0].x = v on the PhysicsState it
\* was returned.
OpWrite(v) ==
  /\ UNCHANGED <<uiVars, poolVars>>
  /\ returned # <<>>
  /\ Len(returned[1].positions) > 0
  /\ returned' = <<[returned[1] EXCEPT !.positions[1].x = v]>>
  /\ sim' = Written(sim, held, v)
  /\ UNCHANGED <<scratch, heap, answer, held, stepCount>>

\* The getters of the public interface.
Getters == {"getEnergy", "getPhaseSpace", "export", "getTime", "getParams"}

\* A getter that memoises: it stores what it returns in the energy history.
Answer_stored(s, value) ==
  [sim |-> [s EXCEPT !.energyHistory = Append(@, value)], out |-> value]

\* A method that assigns no field: the instance as the call found it, and
\* the value it returns.
Answer(s, value) == [sim |-> s, out |-> value]

\* The getter g called on an instance (an ExportData is held by contents).
Asked(s, h, g) ==
  CASE g = "getEnergy" -> Answer(s, getEnergy(s))
    [] g = "getPhaseSpace" -> Answer(s, getPhaseSpace(s))
    [] g = "export" -> Answer(s, Contents(export(s), h))
    [] g = "getTime" -> Answer(s, getTime(s))
    [] OTHER -> Answer(s, getParams(s))

OpAsk(g) ==
  /\ UNCHANGED <<uiVars, poolVars>>
  /\ sim' = Asked(sim, heap, g).sim
  /\ answer' = <<g, Asked(sim, heap, g).out>>
  /\ UNCHANGED <<scratch, heap, returned, held, stepCount>>

\* The general driver: any sequence of init, step, reset, enableRecording
\* and setParams, with a new instance (the twin) taken through every init
\* and through what follows it.

CallInit ==
  \E p \in InitInputs(sim.kind) :
    /\ OpInit(p)
    /\ recSteps' = 0 - 1
    /\ snapshot' = sim'.state
    /\ twin' = [sim |-> init(NewSim(sim.kind), p), scratch |-> ScratchInit]
    /\ twinOut' = <<>>
    /\ UNCHANGED <<traceVars, exportVars>>

CallStep ==
  \E dt \in DtInputs :
    /\ OpStep(dt)
    /\ recSteps' = IF recSteps >= 0 THEN recSteps + 1 ELSE recSteps
    /\ \E tw \in {step(twin.sim, twin.scratch, EmptyHeap, dt)} :
         /\ twin' = [sim |-> tw.sim, scratch |-> tw.scratch]
         /\ twinOut' = <<tw.out>>
    /\ UNCHANGED <<snapshot, traceVars, exportVars>>

CallReset ==
  /\ OpReset
  /\ recSteps' = 0 - 1
  /\ twin' = [twin EXCEPT !.sim = reset(twin.sim)]
  /\ UNCHANGED <<snapshot, twinOut, traceVars, exportVars>>

CallEnableRecording ==
  \E enabled \in BOOLEAN :
    /\ OpEnableRecording(enabled)
    /\ recSteps' = IF enabled THEN 0 ELSE 0 - 1
    /\ UNCHANGED <<snapshot, twinVars, traceVars, exportVars>>

CallSetParams ==
  \E p \in SetInputs(sim.kind) :
    /\ OpSetParams(p)
    /\ twin' = [twin EXCEPT !.sim = setParams(twin.sim, p)]
    /\ UNCHANGED <<recSteps, snapshot, twinOut, traceVars, exportVars>>

Next ==
  \/ CallInit
  \/ CallStep
  \/ CallReset
  \/ CallEnableRecording
  \/ CallSetParams

Spec == Init /\ [][Next]_vars

\* The playback driver, which never turns recording on: init, step, reset,
\* setParams and enableRecording(false), keeping what every run returned.

PlayInit ==
  \E p \in InitInputs(sim.kind) :
    /\ OpInit(p)
    /\ runTrace' = <<>>
    /\ refTrace' = <<>>
    /\ sameParams' = TRUE
    /\ UNCHANGED <<recordingVars, twinVars, exportVars>>

PlayStep ==
  \E dt \in DtInputs :
    /\ OpStep(dt)
    /\ runTrace' = Append(runTrace, returned'[1])
    /\ UNCHANGED <<refTrace, sameParams, recordingVars, twinVars, exportVars>>

PlayReset ==
  /\ OpReset
  /\ refTrace' = IF Len(runTrace) > Len(refTrace) THEN runTrace ELSE refTrace
  /\ runTrace' = <<>>
  /\ UNCHANGED <<sameParams, recordingVars, twinVars, exportVars>>

PlaySetParams ==
  \E p \in SetInputs(sim.kind) :
    /\ OpSetParams(p)
    /\ sameParams' = FALSE
    /\ UNCHANGED <<runTrace, refTrace, recordingVars, twinVars, exportVars>>

PlayStopRecording ==
  /\ OpEnableRecording(FALSE)
  /\ UNCHANGED <<recordingVars, twinVars, traceVars, exportVars>>

NextPlayback ==
  \/ PlayInit
  \/ PlayStep
  \/ PlayReset
  \/ PlaySetParams
  \/ PlayStopRecording

SpecPlayback == Init /\ [][NextPlayback]_vars

\* The export driver: any sequence of init, step, reset and enableRecording
\* up to its first export; from then on it goes on stepping and exporting,
\* and keeps the latest ExportData.

KeepInit ==
  \E p \in InitInputs(sim.kind) :
    /\ exports = <<>>
    /\ OpInit(p)
    /\ UNCHANGED <<recordingVars, twinVars, traceVars, exportVars>>

KeepStep ==
  \E dt \in DtInputs :
    /\ OpStep(dt)
    /\ UNCHANGED <<recordingVars, twinVars, traceVars, exportVars>>

KeepReset ==
  /\ exports = <<>>
  /\ OpReset
  /\ UNCHANGED <<recordingVars, twinVars, traceVars, exportVars>>

KeepEnableRecording ==
  \E enabled \in BOOLEAN :
    /\ exports = <<>>
    /\ OpEnableRecording(enabled)
    /\ UNCHANGED <<recordingVars, twinVars, traceVars, exportVars>>

KeepExport ==
  /\ OpExport
  /\ exportSnap' = <<Contents(export(sim), heap)>>
  /\ UNCHANGED <<recordingVars, twinVars, traceVars>>

NextExport ==
  \/ KeepInit
  \/ KeepStep
  \/ KeepReset
  \/ KeepEnableRecording
  \/ KeepExport

SpecExport == Init /\ [][NextExport]_vars

\* The configured driver: a model of each kind whose config names any of the
\* integration methods, initialised with parameter objects from the whole
\* range a caller can pass (any number of times, before the first step), then
\* stepped and reset.

\* Segment counts a caller can pass to NPendulum.init.
SegmentInputs == 0 .. 11

WideInputs(kind) ==
  CASE kind = "simple" ->
         {NoParams, [length |-> 0], [mass |-> 0 - 100]}
    [] kind = "double" ->
         {NoParams, [length1 |-> 0], [mass2 |-> 0 - 100]}
    [] OTHER ->
         {[n |-> k * 100] : k \in SegmentInputs}
           \cup {[segmentLength |-> 0], [segmentMass |-> 0 - 100]}

InitConfigured ==
  \E kind \in Kinds, method \in Methods :
    /\ sim = [NewSim(kind) EXCEPT !.method = method]
    /\ scratch = ScratchInit
    /\ heap = EmptyHeap
    /\ returned = <<>>
    /\ exports = <<>>
    /\ answer = <<>>
    /\ held = 0
    /\ store = NewStore
    /\ hook = NewHook
    /\ peer = <<>>
    /\ flight = <<>>
    /\ stepCount = 0
    /\ recSteps = 0 - 1
    /\ snapshot = <<>>
    /\ twin = [sim |-> NewSim(kind), scratch |-> ScratchInit]
    /\ twinOut = <<>>
    /\ runTrace = <<>>
    /\ refTrace = <<>>
    /\ sameParams = TRUE
    /\ exportSnap = <<>>

ConfInit ==
  \E p \in WideInputs(sim.kind) :
    /\ returned = <<>>
    /\ OpInit(p)
    /\ UNCHANGED <<recordingVars, twinVars, traceVars, exportVars>>

NextConfigured ==
  \/ ConfInit
  \/ KeepStep
  \/ KeepReset

SpecConfigured == InitConfigured /\ [][NextConfigured]_vars

\* The frame driver: useSimulation mounted on a model class, the frames of
\* the render loop and the controls of the store (the speed is set before
\* the first frame). The hook driver: the effects and callbacks of
\* useSimulation, with frames of the render loop in between.

\* The frame deltas of the render loop, in ticks: none, 1/480 s, 1/60 s, and a
\* stall of 1000 s.
DeltaInputs == {0, 1, 8, 480000}

\* The speeds the control passes to setSpeed, in tenths.
SpeedInputs == {0, 10, 500}

\* The lengths the control passes to setMaxTrailLength.
TrailInputs == {1, InitialTrailLength}

HookInputs(kind) ==
  CASE kind = "simple" -> {NoParams, [initialAngle |-> 157, length |-> 100]}
    [] kind = "double" -> {NoParams, [initialAngle1 |-> 79, mass2 |-> 200]}
    [] OTHER -> {NoParams, [initialSpread |-> 79]}

\* Math.ceil(a / b) for a >= 0, b > 0.
Ceil(a, b) == (a + b - 1) \div b

\* Math.ceil(Math.min(delta, 0.05) * speed / fixedDt): delta and fixedDt in
\* ticks (0.05 s is 24 ticks), speed in tenths.
StepsPerFrame(delta, speed, fixedDt) ==
  Ceil((IF delta < 24 THEN delta ELSE 24) * speed, 10 * fixedDt)

\* for (i < steps) state = sim.step(fixedDt)
RECURSIVE StepTimes(_, _, _)
StepTimes(r, k, dt) ==
  IF k = 0 THEN r ELSE StepTimes(step(r.sim, r.scratch, r.heap, dt), k - 1, dt)

\* positions.map((pos) => ({ position: pos, time: state.time, energy: .. }))
TrailPoints(state, energy) ==
  [i \in DOMAIN state.positions |->
     [position |-> state.positions[i], time |-> state.time,
      energy |-> energy.total]]

\* The store after a frame that stepped: the state and energy set, the trail
\* and phase points added.
StoreAfterFrame(st, s1, state) ==
  addPhasePoints(
    addTrailPoints(
      [st EXCEPT !.physicsState = <<state>>, !.energy = getEnergy(s1)],
      TrailPoints(state, getEnergy(s1))),
    getPhaseSpace(s1))

\* const state = sim.step(0); setPhysicsState(state); setEnergy(sim.getEnergy())
\* on the instance s0, the hook and the store being hk and st before it.
Shows(s0, hk, st) ==
  /\ \E r \in {step(s0, scratch, heap, 0)} :
       /\ sim' = r.sim
       /\ scratch' = r.scratch
       /\ heap' = Collect(r.heap, r.sim, exports)
       /\ returned' = <<r.out>>
       /\ held' = SharedSample(r.sim)
       /\ hook' = [hk EXCEPT !.physicsState = <<r.out>>,
                             !.energy = getEnergy(r.sim)]
  /\ store' = st
  /\ stepCount' = 1
  /\ answer' = <<>>
  /\ UNCHANGED <<poolVars, recordingVars, twinVars, traceVars, exportVars>>

\* The first effect: new SimulationClass(), init(initialParams), step(0).
HookMount ==
  \E p \in HookInputs(sim.kind) :
    /\ ~hook.mounted
    /\ Shows(init(NewSim(sim.kind), p), [hook EXCEPT !.mounted = TRUE], store)

\* The second effect, when initialParams differ from those seen last.
HookParamsChange ==
  \E p \in HookInputs(sim.kind) :
    /\ hook.mounted
    /\ hook.lastParams # <<p>>
    /\ Shows(init(sim, p), [hook EXCEPT !.lastParams = <<p>>],
             clearTrails(store))

HookUpdateParams ==
  \E p \in HookInputs(sim.kind) :
    /\ hook.mounted
    /\ Shows(init(sim, p), hook, clearTrails(store))

HookReset ==
  /\ hook.mounted
  /\ Shows(reset(sim), hook, clearTrails(store))

\* useFrame((_, delta) => ...) while not playing: tick returns at once, and
\* so does the callback.
FrameIdle ==
  \E delta \in DeltaInputs :
    /\ ~store.isPlaying
    /\ store.frameCount < MaxFrames
    /\ store' = tick(store, delta)
    /\ UNCHANGED <<sim, scratch, heap, returned, exports, answer, held, hook,
                   poolVars, stepCount, recordingVars, twinVars, traceVars,
                   exportSnap>>

\* A frame while playing that takes no step: only tick runs.
FrameEmpty(delta) ==
  /\ StepsPerFrame(delta, store.speed, fixedTimestep(sim.kind)) = 0
  /\ store' = tick(store, delta)
  /\ UNCHANGED <<sim, scratch, heap, returned, answer, held, hook, stepCount>>

\* A frame while playing that steps the model.
FrameSteps(delta) ==
  /\ StepsPerFrame(delta, store.speed, fixedTimestep(sim.kind)) > 0
  /\ stepCount + StepsPerFrame(delta, store.speed, fixedTimestep(sim.kind))
       <= MaxSteps
  /\ \E r \in {StepTimes([sim |-> sim, scratch |-> scratch, heap |-> heap,
                          out |-> <<>>],
                         StepsPerFrame(delta, store.speed,
                                       fixedTimestep(sim.kind)),
                         fixedTimestep(sim.kind))} :
       /\ sim' = r.sim
       /\ scratch' = r.scratch
       /\ heap' = Collect(r.heap, r.sim, exports)
       /\ returned' = <<r.out>>
       /\ held' = SharedSample(r.sim)
       /\ hook' = [hook EXCEPT !.physicsState = <<r.out>>,
                               !.energy = getEnergy(r.sim)]
       /\ store' = StoreAfterFrame(tick(store, delta), r.sim, r.out)
  /\ stepCount' = stepCount
                    + StepsPerFrame(delta, store.speed, fixedTimestep(sim.kind))
  /\ answer' = <<>>

FramePlaying ==
  \E delta \in DeltaInputs :
    /\ store.isPlaying
    /\ hook.mounted
    /\ store.frameCount < MaxFrames
    /\ FrameEmpty(delta) \/ FrameSteps(delta)
    /\ UNCHANGED <<poolVars, recordingVars, twinVars, traceVars, exportVars>>

\* The controls of the store.
StoreControl(st) ==
  /\ store' = st
  /\ UNCHANGED <<sim, scratch, heap, returned, exports, answer, held, hook,
                 poolVars, stepCount, recordingVars, twinVars, traceVars,
                 exportSnap>>

play == StoreControl([store EXCEPT !.isPlaying = TRUE])

pause == StoreControl([store EXCEPT !.isPlaying = FALSE])

\* reset of the store
resetStore ==
  StoreControl(
    [store EXCEPT !.isPlaying = FALSE, !.elapsedTime = 0, !.frameCount = 0,
                  !.trails = <<>>, !.phaseSpace = <<>>,
                  !.energy = [kinetic |-> 0, potential |-> 0, total |-> 0]])

StoreSetSpeed ==
  \E v \in SpeedInputs :
    /\ store.frameCount = 0
    /\ StoreControl(setSpeed(store, v))

setMaxTrailLength ==
  \E length \in TrailInputs :
    StoreControl([store EXCEPT !.maxTrailLength = length])

NextHook ==
  \/ HookMount
  \/ HookParamsChange
  \/ HookUpdateParams
  \/ HookReset
  \/ play
  \/ FramePlaying

SpecHook == Init /\ [][NextHook]_vars

NextFrame ==
  \/ HookMount
  \/ FrameIdle
  \/ FramePlaying
  \/ play
  \/ pause
  \/ resetStore
  \/ StoreSetSpeed
  \/ setMaxTrailLength

SpecFrame == Init /\ [][NextFrame]_vars

\* The ownership driver: any sequence of init, step, reset and
\* enableRecording, with the caller writing into the PhysicsState it holds.

\* The values the caller writes.
WriteInputs == {0, 3}

CallerWrites ==
  \E v \in WriteInputs :
    /\ OpWrite(v)
    /\ UNCHANGED <<recordingVars, twinVars, traceVars, exportVars>>

NextOwnership ==
  \/ KeepInit
  \/ KeepStep
  \/ KeepReset
  \/ KeepEnableRecording
  \/ CallerWrites

SpecOwnership == Init /\ [][NextOwnership]_vars

\* The query driver: any sequence of init, step, reset and enableRecording,
\* with calls of the getters in between.

AskGetter ==
  \E g \in Getters :
    /\ OpAsk(g)
    /\ UNCHANGED <<recordingVars, twinVars, traceVars, exportVars>>

NextQuery ==
  \/ KeepInit
  \/ KeepStep
  \/ KeepReset
  \/ KeepEnableRecording
  \/ AskGetter

SpecQuery == Init /\ [][NextQuery]_vars

\* The drivers of the shared buffers: a second instance of any kind, made
\* and stepped by the same module, so that its integrator calls use the
\* buffers of the first. Its replica is stepped alone, on buffers of its own.

\* new SimulationClass().init(p) for the second instance.
PeerInit ==
  \E kind \in Kinds :
    \E p \in InitInputs(kind) :
      /\ peer = <<>>
      /\ peer' = <<[sim |-> init(NewSim(kind), p),
                    solo |-> init(NewSim(kind), p),
                    soloScratch |-> ScratchInit,
                    out |-> <<>>, soloOut |-> <<>>,
                    steps |-> 0, seen |-> 0]>>
      /\ UNCHANGED <<sim, scratch, heap, returned, exports, answer, held,
                     uiVars, flight, stepCount, recordingVars, twinVars,
                     traceVars, exportSnap>>

\* step(dt) on the second instance; seen is the number of steps the first
\* instance had taken by then, and an invocation in flight is intruded on.
PeerStep ==
  \E dt \in DtInputs :
    /\ peer # <<>>
    /\ peer[1].steps < MaxPeerSteps
    /\ \E r \in {step(peer[1].sim, scratch, EmptyHeap, dt)} :
         \E a \in {step(peer[1].solo, peer[1].soloScratch, EmptyHeap, dt)} :
           /\ scratch' = r.scratch
           /\ peer' = <<[sim |-> r.sim, solo |-> a.sim,
                         soloScratch |-> a.scratch,
                         out |-> <<r.out>>, soloOut |-> <<a.out>>,
                         steps |-> peer[1].steps + 1, seen |-> stepCount]>>
    /\ flight' = IF flight # <<>> /\ flight[1].stage \in 1 .. 4
                   THEN <<[flight[1] EXCEPT !.intruded = TRUE]>>
                   ELSE flight
    /\ UNCHANGED <<sim, heap, returned, exports, answer, held, uiVars,
                   stepCount, recordingVars, twinVars, traceVars, exportSnap>>

\* init on the first instance, before its first step.
ShareInit ==
  /\ returned = <<>>
  /\ CallInit

NextShared ==
  \/ ShareInit
  \/ CallStep
  \/ PeerInit
  \/ PeerStep

SpecShared == Init /\ [][NextShared]_vars

\* The reentrancy driver: an rk4 invocation on the state of the first
\* instance runs a stage at a time, and the second instance is stepped
\* between its stages.

FlightInit ==
  \E p \in InitInputs(sim.kind) :
    /\ flight = <<>>
    /\ OpInit(p)
    /\ UNCHANGED <<recordingVars, twinVars, traceVars, exportVars>>

\* rk4(this.state, this.time, actualDt, derivatives) up to the loop that
\* writes _rk4_k1; alone is what the invocation returns when nothing runs
\* before it returns.
Rk4Begin ==
  /\ sim.params # NoParams
  /\ IF flight = <<>> THEN TRUE ELSE flight[1].stage = 5
  /\ \E a \in {Rk4Stage(Call(sim, scratch), sim.state, Len(sim.state),
                         FromTicks(fixedTimestep(sim.kind)), 0)} :
       /\ sim' = a.sim
       /\ scratch' = a.scratch
  /\ flight' = <<[state |-> sim.state,
                  h |-> FromTicks(fixedTimestep(sim.kind)),
                  stage |-> 1,
                  alone |-> rk4(sim, scratch, sim.state, sim.time,
                                fixedTimestep(sim.kind)).state,
                  intruded |-> FALSE,
                  out |-> <<>>]>>
  /\ UNCHANGED <<heap, returned, exports, answer, held, uiVars, peer,
                 stepCount, recordingVars, twinVars, traceVars, exportSnap>>

\* The next stage of the invocation in flight; the last one returns
\* _rk4_result.slice(0, n).
Rk4Continue ==
  /\ flight # <<>>
  /\ flight[1].stage \in 1 .. 4
  /\ \E a \in {Rk4Stage(Call(sim, scratch), flight[1].state,
                         Len(flight[1].state), flight[1].h,
                         flight[1].stage)} :
       /\ sim' = a.sim
       /\ scratch' = a.scratch
       /\ flight' =
            <<[flight[1] EXCEPT
                 !.stage = @ + 1,
                 !.out = IF flight[1].stage = 4
                           THEN <<Return(a, Len(flight[1].state),
                                         "rk4_result").state>>
                           ELSE <<>>]>>
  /\ UNCHANGED <<heap, returned, exports, answer, held, uiVars, peer,
                 stepCount, recordingVars, twinVars, traceVars, exportSnap>>

NextReentrant ==
  \/ FlightInit
  \/ PeerInit
  \/ PeerStep
  \/ Rk4Begin
  \/ Rk4Continue

SpecReentrant == Init /\ [][NextReentrant]_vars

\* ------------------------------------------------------------------ claims

\* The five history buffers of an instance are empty.
NoHistory(s) ==
  /\ Len(s.timeHistory) = 0
  /\ Len(s.positionHistory) = 0
  /\ Len(s.velocityHistory) = 0
  /\ Len(s.energyHistory) = 0
  /\ Len(s.phaseHistory) = 0

\* An ExportData holds no sample.
EmptyExport(e) ==
  /\ e.timeSeries.time = <<>>
  /\ e.timeSeries.positions = <<>>
  /\ e.timeSeries.velocities = <<>>
  /\ e.timeSeries.energy = <<>>
  /\ e.phaseSpace = <<>>

\* C1: recording is off on a new model and stays off under a driver that
\* never calls enableRecording(true); whatever that driver does, no step
\* touches a history buffer and export() returns empty time series.
C1_RecordingOffByDefault ==
  /\ ~sim.recordingEnabled
  /\ NoHistory(sim)
  /\ EmptyExport(export(sim))

\* Three steps taken in a row, recording never turned on.
C1_Witness ==
  /\ stepCount = 3
  /\ ~sim.recordingEnabled
  /\ EmptyExport(export(sim))

\* The per-body phase series of an instance, read from the heap.
PhaseSeries(s, h) == [i \in DOMAIN s.phaseHistory |-> h[s.phaseHistory[i]]]

\* The lengths of the history buffers: time, positions, velocities, energy,
\* and every per-body phase series.
HistoryLengths(s, h) ==
  {Len(s.timeHistory), Len(s.positionHistory), Len(s.velocityHistory),
   Len(s.energyHistory)}
    \cup {Len(PhaseSeries(s, h)[i]) : i \in DOMAIN s.phaseHistory}

\* C2: in every reachable state the time, position, velocity and energy
\* buffers and every per-body phase series have one and the same length, and
\* so have the arrays of the ExportData.
C2_BuffersSameLength ==
  /\ HistoryLengths(sim, heap) = {Len(sim.timeHistory)}
  /\ Len(export(sim).timeSeries.positions) = Len(export(sim).timeSeries.time)
  /\ Len(export(sim).timeSeries.velocities) = Len(export(sim).timeSeries.time)
  /\ Len(export(sim).timeSeries.energy) = Len(export(sim).timeSeries.time)

\* A recording run past its first truncation, with two phase series or more.
C2_Witness ==
  /\ sim.recordingEnabled
  /\ recSteps > maxHistoryLength
  /\ Len(sim.phaseHistory) >= 2
  /\ HistoryLengths(sim, heap) = {maxHistoryLength - TrimHeadroom + 1}

\* C3: no history buffer ever holds more than maxHistoryLength samples.
C3_HistoryBounded ==
  \A n \in HistoryLengths(sim, heap) : n <= maxHistoryLength

\* A recording run that was truncated and has filled the buffers again.
C3_Witness ==
  /\ sim.recordingEnabled
  /\ recSteps > maxHistoryLength
  /\ HistoryLengths(sim, heap) = {maxHistoryLength}

\* What init(p) leaves behind: the defaults overridden by p, time 0, the
\* state vector of those parameters, the snapshot equal to it, no history.
InitPost(s, p) ==
  /\ DOMAIN s.params = (DOMAIN DefaultParams(s.kind)) \cup (DOMAIN p)
  /\ \A k \in DOMAIN s.params :
       s.params[k] = IF k \in DOMAIN p THEN p[k] ELSE DefaultParams(s.kind)[k]
  /\ s.time = 0
  /\ s.state = createInitialState(s)
  /\ s.initialState = s.state
  /\ NoHistory(s)

\* C4: every init(p), whatever came before it, leaves the defaults
\* overridden by p, time 0, the state vector derived from them, the snapshot
\* equal to that vector and empty history; and every step returns what the
\* same step returns on a new instance taken through the same init(p) and
\* the operations since.
C4_InitStartsAfresh ==
  [][/\ \A p \in InitInputs(sim.kind) : OpInit(p) => InitPost(sim', p)
     /\ twinOut' # <<>> => returned' = twinOut']_vars

\* A step after a re-init, with buffers that still differ from the new
\* instance's, has returned what the new instance returned.
C4_Witness ==
  /\ twinOut # <<>>
  /\ returned = twinOut
  /\ stepCount >= 2
  /\ Len(sim.state) > 0
  /\ scratch # twin.scratch

\* C5: every reset leaves the state vector equal to the snapshot of the
\* latest init, time 0 and empty history buffers, and no call other than
\* init (step, reset, setParams, enableRecording) changes the snapshot.
C5_ResetRestoresSnapshot ==
  [][/\ OpReset =>
          (sim'.state = snapshot /\ sim'.time = 0 /\ NoHistory(sim'))
     /\ (\A p \in InitInputs(sim.kind) : ~OpInit(p)) =>
          (sim'.initialState = sim.initialState /\ sim'.initialState = snapshot)
    ]_vars

\* A reset has acted on an initialised, recording instance that had stepped.
C5_Witness ==
  /\ stepCount = 0
  /\ twinOut # <<>>
  /\ sim.recordingEnabled
  /\ Len(snapshot) > 0
  /\ sim.state = snapshot
  /\ sim.time = 0
  /\ NoHistory(sim)

\* C6: with no setParams since the init, the run in progress has returned,
\* index by index, the PhysicsState values that the longest earlier run
\* since that init returned.
C6_ResetReplays ==
  sameParams =>
    \A i \in (DOMAIN runTrace) \cap (DOMAIN refTrace) : runTrace[i] = refTrace[i]

\* init, three steps and more, reset, as many steps again.
C6_Witness ==
  /\ sameParams
  /\ Len(sim.initialState) > 0
  /\ Len(refTrace) >= 3
  /\ Len(runTrace) = Len(refTrace)
  /\ runTrace = refTrace

\* C7: the model time is the number of step calls since the last init or
\* reset times the fixed timestep, whatever dt the calls passed.
C7_TimeIsStepsTimesFixedDt ==
  sim.time = stepCount * fixedTimestep(sim.kind)

\* A full run of the simple pendulum, whose timestep is two ticks.
C7_Witness ==
  /\ sim.kind = "simple"
  /\ stepCount = MaxSteps
  /\ sim.time = MaxSteps * fixedTimestep("simple")

\* C8: k steps after enableRecording(true), with k at most maxHistoryLength
\* and no reset, init or enableRecording since, export() returns time,
\* positions, velocities and energy arrays of length k.
C8_ExportLengthIsStepCount ==
  (recSteps >= 0 /\ recSteps <= maxHistoryLength) =>
    /\ Len(export(sim).timeSeries.time) = recSteps
    /\ Len(export(sim).timeSeries.positions) = recSteps
    /\ Len(export(sim).timeSeries.velocities) = recSteps
    /\ Len(export(sim).timeSeries.energy) = recSteps

\* Recording was enabled on an instance that had stepped, and exactly
\* maxHistoryLength steps followed.
C8_Witness ==
  /\ recSteps = maxHistoryLength
  /\ stepCount > recSteps
  /\ Len(export(sim).timeSeries.time) = maxHistoryLength

\* C9: the recorded times go up by the fixed timestep from each sample to
\* the next; the first sample of a recording run is one fixed timestep after
\* the time at which recording was enabled, and no sample is as early as that
\* time or as the time 0 of an init or reset.
C9_RecordedTimes ==
  /\ \A i \in 1 .. (Len(sim.timeHistory) - 1) :
       sim.timeHistory[i + 1] = sim.timeHistory[i] + fixedTimestep(sim.kind)
  /\ \A i \in DOMAIN sim.timeHistory :
       sim.timeHistory[i] >= fixedTimestep(sim.kind)
  /\ recSteps >= 0 =>
       \A i \in DOMAIN sim.timeHistory :
         sim.timeHistory[i] >
           sim.time - recSteps * fixedTimestep(sim.kind)
  /\ (recSteps >= 1 /\ recSteps <= maxHistoryLength) =>
       sim.timeHistory[1] =
         sim.time - recSteps * fixedTimestep(sim.kind) + fixedTimestep(sim.kind)
  /\ export(sim).timeSeries.time = sim.timeHistory

\* Recording was enabled at a time after 0 and has been truncated since.
C9_Witness ==
  /\ recSteps > maxHistoryLength
  /\ stepCount > recSteps
  /\ Len(sim.timeHistory) > 1
  /\ sim.timeHistory[Len(sim.timeHistory)] = sim.time

\* C10: every array reachable from the ExportData the caller holds, the
\* per-body phaseSpace series included, has the contents it had when
\* export() returned it.
C10_ExportIsSnapshot ==
  Len(exports) > 0 => Contents(exports[1], heap) = exportSnap[1]

\* The recorded samples of an instance, buffer by buffer.
Recorded(s, h) ==
  <<s.timeHistory, s.positionHistory, s.velocityHistory, s.energyHistory,
    PhaseSeries(s, h)>>

\* C11: every enableRecording(true), also on an instance that is recording,
\* leaves all history buffers empty, so that the export of a recording run
\* holds only samples of steps taken since; every enableRecording(false)
\* leaves the recorded samples as they were.
C11_EnableClearsHistory ==
  [][/\ OpEnableRecording(TRUE) =>
          (sim'.recordingEnabled /\ NoHistory(sim'))
     /\ OpEnableRecording(FALSE) =>
          (~sim'.recordingEnabled /\ Recorded(sim', heap') = Recorded(sim, heap))
     /\ recSteps' >= 0 =>
          /\ Len(export(sim').timeSeries.time) <= recSteps'
          /\ \A i \in DOMAIN export(sim').timeSeries.time :
               export(sim').timeSeries.time[i] >
                 sim'.time - recSteps' * fixedTimestep(sim'.kind)
    ]_vars

\* One step after enableRecording(true) on an instance that had stepped
\* before: the export holds that one sample.
C11_Witness ==
  /\ sim.recordingEnabled
  /\ recSteps = 1
  /\ stepCount >= 3
  /\ Len(export(sim).timeSeries.time) = 1

\* C12: once an instance is initialised, no call other than init changes
\* the parameter set the model reads in its derivative, Cartesian conversion
\* and energy computations.
C12_ParamsFixedBetweenInits ==
  [][(sim.params # NoParams /\ \A p \in InitInputs(sim.kind) : ~OpInit(p)) =>
       /\ sim'.params = sim.params
       /\ getParams(sim') = getParams(sim)]_vars

C14_StateLengthFixed ==
  [][/\ (\A p \in WideInputs(sim.kind) : ~OpInit(p)) =>
          /\ Len(sim'.state) = Len(sim.state)
          /\ Len(sim'.initialState) = Len(sim.initialState)
     /\ Len(euler(sim, scratch, sim.state, sim.time, 1).state) = Len(sim.state)
     /\ Len(rk4(sim, scratch, sim.state, sim.time, 1).state) = Len(sim.state)
     /\ Len(sim'.state) = Len(sim'.initialState)]_vars

\* A two-segment chain integrated by euler has been stepped.
C14_Witness ==
  /\ sim.kind = "n"
  /\ sim.method = "euler"
  /\ stepCount >= 2
  /\ Len(sim.state) = 4
  /\ sim.state # sim.initialState

\* C15: NPendulum.init({n: k}) for every whole k from 2 to 10 leaves a state
\* vector of length 2k whose last k elements are zero, and getPhaseSpace()
\* then returns k phase points, the i-th pairing angle i with velocity i.
C15_ChainInitLength ==
  [][\A k \in 2 .. 10 :
       (sim.kind = "n" /\ OpInit([n |-> k * 100])) =>
         /\ Len(sim'.state) = 2 * k
         /\ \A i \in 1 .. k : sim'.state[k + i] = 0
         /\ Len(getPhaseSpace(sim')) = k
         /\ \A i \in 1 .. k :
              getPhaseSpace(sim')[i] = PhasePoint(sim'.state[i], 0, 0)]_vars

\* A chain has been initialised with ten segments.
C15_Witness ==
  /\ sim.kind = "n"
  /\ sim.params # NoParams
  /\ sim.params["n"] = 1000
  /\ stepCount = 0
  /\ Len(sim.state) = 20
  /\ Len(getPhaseSpace(sim)) = 10

\* C16: an initialised chain has between 2 and 10 segments, whatever count
\* init was called with, so its state vector has at most 20 elements and the
\* integrator's scratch buffers keep their allocated length of 20.
C16_SegmentCountValidated ==
  (sim.kind = "n" /\ sim.params # NoParams) =>
    /\ sim.n \in 2 .. 10
    /\ Len(sim.state) <= 20
    /\ \A buf \in DOMAIN scratch : Len(scratch[buf]) = 20

\* The length and mass parameters of the three models.
LengthMassKeys ==
  {"length", "mass", "length1", "length2", "mass1", "mass2",
   "segmentLength", "segmentMass"}

\* C17: no initialised model holds a length or mass parameter that is zero or
\* negative, whatever init was called with.
C17_LengthMassPositive ==
  \A key \in LengthMassKeys \cap DOMAIN sim.params : sim.params[key] > 0

\* The state vector after one step of the integrator the configuration
\* names: euler, rk4, or verlet on the positions (first half) and the
\* velocities (second half).
Halves(r) == r.positions \o r.velocities

NamedIntegrator(s, sc, dt) ==
  CASE s.method = "euler" -> euler(s, sc, s.state, s.time, dt).state
    [] s.method = "verlet" ->
         Halves(verlet(s, SliceFirst(s.state, Len(s.state) \div 2),
                       SliceFrom(s.state, Len(s.state) \div 2), dt))
    [] OTHER -> rk4(s, sc, s.state, s.time, dt).state

\* C18: every step leaves the state vector that one step of the integrator
\* named by the model's configured integrationMethod gives, for euler, verlet
\* and rk4.
C18_StepUsesConfiguredIntegrator ==
  [][\A dt \in DtInputs :
       OpStep(dt) =>
         sim'.state = NamedIntegrator(sim, scratch, ActualDt(sim.kind, dt))]_vars

\* The classical fourth-order Runge-Kutta step, with f the model's derivative
\* function as a function of the state vector alone.
F(s, y) == Read(computeDerivatives(s, y).derivBuffer, Len(y))

Axpy(y, c, k) == [i \in 1 .. Len(y) |-> Add(y[i], Mul(c, k[i]))]

WeightedSum(y, h, k1, k2, k3, k4) ==
  [i \in 1 .. Len(y) |->
     Add(y[i], Mul(Div(h, 6),
                   Add(Add(Add(k1[i], Mul(2, k2[i])), Mul(2, k3[i])),
                       k4[i])))]

Stage4(s, y, h, k1, k2, k3) ==
  WeightedSum(y, h, k1, k2, k3, F(s, Axpy(y, h, k3)))

Stage3(s, y, h, k1, k2) ==
  Stage4(s, y, h, k1, k2, F(s, Axpy(y, Div(h, 2), k2)))

Stage2(s, y, h, k1) == Stage3(s, y, h, k1, F(s, Axpy(y, Div(h, 2), k1)))

RungeKutta4(s, y, h) == Stage2(s, y, h, F(s, y))

\* C19: for the current state vector y and every step size, rk4 returns
\* y + dt/6 (k1 + 2 k2 + 2 k3 + k4) with k1 = f(y), k2 = f(y + dt/2 k1),
\* k3 = f(y + dt/2 k2), k4 = f(y + dt k3), of the length of y, f being the
\* model's computeDerivatives with its reused buffer, and leaves the state
\* vector it was given as it was.
C19_Rk4IsRungeKutta ==
  \A dt \in DtInputs \cup {fixedTimestep(sim.kind)} :
    /\ rk4(sim, scratch, sim.state, sim.time, dt).state
         = RungeKutta4(sim, sim.state, FromTicks(dt))
    /\ Len(rk4(sim, scratch, sim.state, sim.time, dt).state) = Len(sim.state)
    /\ rk4(sim, scratch, sim.state, sim.time, dt).sim.state = sim.state

\* rk4 has advanced a double pendulum twice, and would move it again.
C19_Witness ==
  /\ sim.kind = "double"
  /\ sim.method = "rk4"
  /\ stepCount >= 2
  /\ \A i \in DOMAIN sim.state : ~IsNaN(sim.state[i])
  /\ rk4(sim, scratch, sim.state, sim.time, fixedTimestep(sim.kind)).state
       # sim.state
  /\ scratch.rk4_k1 # scratch.rk4_k4

\* C21: a write of the caller into the PhysicsState an initialised model
\* returned changes neither the recorded history nor what export() returns
\* afterwards.
C21_ReturnedStateOwned ==
  [][\A v \in WriteInputs :
       (sim.params # NoParams /\ OpWrite(v)) =>
         /\ Recorded(sim', heap') = Recorded(sim, heap)
         /\ Contents(export(sim'), heap') = Contents(export(sim), heap)]_vars

\* A buffer after a truncating step: the keep most recent samples of the full
\* buffer, in their order, followed by one new sample.
DroppedOldest(old, new, keep) ==
  /\ Len(old) = maxHistoryLength
  /\ Len(new) = keep + 1
  /\ SubSeq(new, 1, keep) = SubSeq(old, Len(old) - keep + 1, Len(old))

\* C22: a recorded step that finds the buffers at maxHistoryLength leaves in
\* every buffer (time, positions, velocities, energy, each phase series) the
\* most recent maxHistoryLength - TrimHeadroom samples in their order,
\* followed by the sample of this step.
C22_TrimKeepsNewest ==
  [][(/\ stepCount' = stepCount + 1
      /\ sim.recordingEnabled
      /\ Len(sim.timeHistory) >= maxHistoryLength) =>
       /\ \A i \in 1 .. 4 :
            DroppedOldest(Recorded(sim, heap)[i], Recorded(sim', heap')[i],
                          maxHistoryLength - TrimHeadroom)
       /\ Len(sim'.phaseHistory) = Len(sim.phaseHistory)
       /\ \A b \in DOMAIN sim.phaseHistory :
            DroppedOldest(PhaseSeries(sim, heap)[b], PhaseSeries(sim', heap')[b],
                          maxHistoryLength - TrimHeadroom)
       /\ sim'.timeHistory[Len(sim'.timeHistory)] = sim'.time
       /\ sim'.positionHistory[Len(sim'.positionHistory)]
            = returned'[1].positions
       /\ sim'.energyHistory[Len(sim'.energyHistory)] = getEnergy(sim')]_vars

\* The step after the buffers were full has just truncated them: the oldest
\* sample left is the one recorded TrimHeadroom steps into the run.
C22_Witness ==
  /\ sim.recordingEnabled
  /\ recSteps = maxHistoryLength + 1
  /\ Len(sim.timeHistory) = maxHistoryLength - TrimHeadroom + 1
  /\ sim.timeHistory[1] = sim.time - (maxHistoryLength - TrimHeadroom)
                                       * fixedTimestep(sim.kind)
  /\ sim.params # NoParams

\* C23: in an uninterrupted recording run the steps that truncate the buffers
\* are TrimHeadroom steps apart (the first is step maxHistoryLength + 1), so a
\* truncating step is followed by TrimHeadroom - 1 steps that only append,
\* and of any TrimHeadroom consecutive recorded steps at most one truncates.
C23_TrimIsInfrequent ==
  [][(recSteps >= 0 /\ recSteps' = recSteps + 1) =>
       /\ Len(sim.timeHistory) >= maxHistoryLength
            <=> /\ recSteps' > maxHistoryLength
                /\ (recSteps' - maxHistoryLength - 1) % TrimHeadroom = 0
       /\ Len(sim.timeHistory) < maxHistoryLength
            => Recorded(sim', heap')[1]
                 = Append(Recorded(sim, heap)[1], sim'.time)]_vars

\* The step after a truncating step has appended without truncating.
C23_Witness ==
  /\ sim.recordingEnabled
  /\ recSteps = maxHistoryLength + 2
  /\ Len(sim.timeHistory) = maxHistoryLength - TrimHeadroom + 2
  /\ sim.params # NoParams

\* C24: while playing, a frame of the driver executes
\* ceil(min(delta, 0.05) * speed / fixedDt) steps of the model; the speed being
\* clamped to [0.1, 10], that number never exceeds ceil(0.5 / fixedDt) (0.5 s
\* is 240 ticks) whatever the frame delta; while not playing no step is
\* executed.
C24_StepsPerFrameBounded ==
  [][/\ \A delta \in DeltaInputs :
          StepsPerFrame(delta, store.speed, fixedTimestep(sim.kind))
            <= Ceil(240 * 10, 10 * fixedTimestep(sim.kind))
     /\ store'.frameCount = store.frameCount + 1 =>
          /\ store.isPlaying
          /\ \E delta \in DeltaInputs :
               /\ store'.elapsedTime = store.elapsedTime + delta * store.speed
               /\ stepCount' = stepCount
                    + StepsPerFrame(delta, store.speed,
                                    fixedTimestep(sim.kind))
     /\ (~store.isPlaying /\ hook.mounted) =>
          (sim' = sim /\ stepCount' = stepCount)]_vars

\* A stalled frame at speed 0.1 was played: its delta of 1000 s, capped to
\* 0.05 s, made the driver execute ceil(0.005 / fixedDt) steps after the
\* step of the mount.
C24_Witness ==
  /\ store.speed = 1
  /\ store.frameCount = 1
  /\ store.elapsedTime = 480000
  /\ stepCount = 1 + Ceil(24, 10 * fixedTimestep(sim.kind))
  /\ stepCount > 2

\* C25: rk4 is not reentrant. An invocation returns what it returns alone
\* unless a second invocation ran between its first write to the shared
\* buffers and its final read of them; when one did, it can return a
\* different result (the witness).
C25_Rk4NotReentrant ==
  (flight # <<>> /\ flight[1].stage = 5) =>
    (flight[1].out # <<flight[1].alone>> => flight[1].intruded)

\* An invocation that was intruded on has returned, and its result is not
\* the one it returns alone.
C25_Witness ==
  /\ flight # <<>>
  /\ flight[1].stage = 5
  /\ flight[1].intruded
  /\ flight[1].out # <<flight[1].alone>>

\* C26: instances of any kinds and state lengths stepped alternately, a whole
\* step() call at a time in any order, on the shared scratch buffers: every
\* PhysicsState an instance returns is the one it returns when it is stepped
\* alone.
C26_WholeStepsDoNotInterfere ==
  /\ (returned # <<>> /\ twinOut # <<>>) => returned = twinOut
  /\ peer # <<>> => peer[1].out = peer[1].soloOut

\* Two instances of different state lengths were stepped in turn: the first
\* stepped before and after the last step of the second, which stepped at
\* least twice, and the shared buffers are not those of a run alone.
C26_Witness ==
  /\ peer # <<>>
  /\ Len(peer[1].sim.state) # Len(sim.state)
  /\ peer[1].steps >= 2
  /\ peer[1].seen >= 1
  /\ stepCount > peer[1].seen
  /\ scratch # twin.scratch
  /\ returned = twinOut
  /\ peer[1].out = peer[1].soloOut

\* C27: the mount, a change of the parameters, updateParams and reset of the
\* driver each call step(0) after init or reset, and the fixed timestep
\* overrides the 0: afterwards the model time is exactly one fixed timestep,
\* and the PhysicsState displayed is that of the state one integration step
\* past the initial condition, not the initial condition itself.
C27_DisplayIsOneStepIn ==
  [][(HookMount \/ HookParamsChange \/ HookUpdateParams \/ HookReset) =>
       /\ sim'.time = fixedTimestep(sim'.kind)
       /\ sim'.state =
            Integrate([sim' EXCEPT !.state = sim'.initialState, !.time = 0],
                      scratch, fixedTimestep(sim'.kind)).state
       /\ hook'.physicsState = <<stateToPhysics(sim', sim'.state)>>
       /\ hook'.physicsState
            # <<stateToPhysics([sim' EXCEPT !.time = 0],
                              sim'.initialState)>>]_vars

\* The driver's reset (or a new init) after frames that stepped the model:
\* the store still holds the state of a later time, and the model and the
\* display are at one fixed timestep.
C27_Witness ==
  /\ hook.mounted
  /\ stepCount = 1
  /\ store.physicsState # <<>>
  /\ store.physicsState[1].time > fixedTimestep(sim.kind)
  /\ sim.time = fixedTimestep(sim.kind)
  /\ hook.physicsState # <<>>
  /\ hook.physicsState[1].time = fixedTimestep(sim.kind)

\* C28: init and reset leave the recording flag as it is, so only
\* enableRecording changes it; and a step of a model whose flag is set
\* records its sample, also after a reset or a new init.
C28_RecordingFlagKept ==
  [][/\ \A p \in InitInputs(sim.kind) :
          OpInit(p) => sim'.recordingEnabled = sim.recordingEnabled
     /\ OpReset => sim'.recordingEnabled = sim.recordingEnabled
     /\ sim'.recordingEnabled # sim.recordingEnabled =>
          OpEnableRecording(sim'.recordingEnabled)
     /\ (sim.recordingEnabled /\ stepCount' = stepCount + 1) =>
          /\ sim'.recordingEnabled
          /\ Len(sim'.timeHistory) > 0
          /\ sim'.timeHistory[Len(sim'.timeHistory)] = sim'.time
          /\ Len(sim'.timeHistory) =
               1 + (IF Len(sim.timeHistory) >= maxHistoryLength
                      THEN maxHistoryLength - TrimHeadroom
                      ELSE Len(sim.timeHistory))]_vars

\* Recording was enabled, the model was then reset or initialised again, and
\* the two steps taken since were both recorded.
C28_Witness ==
  /\ sim.recordingEnabled
  /\ recSteps = 0 - 1
  /\ stepCount = 2
  /\ Len(sim.timeHistory) = 2
  /\ sim.timeHistory[2] = sim.time

\* C29: in every reachable state of the store each trail and each phase
\* space series holds at most maxTrailLength points.
C29_TrailsWithinMax ==
  /\ \A i \in DOMAIN store.trails :
       Len(store.trails[i]) <= store.maxTrailLength
  /\ \A i \in DOMAIN store.phaseSpace :
       Len(store.phaseSpace[i]) <= store.maxTrailLength

\* The points of a series whose sample time is at most 30 s behind the
\* simulation time now (a time of the model, in ticks).
Fresh(series, now) ==
  SelectSeq(series,
            LAMBDA pt : 10 * pt.time >= 10 * now - MAX_DATA_AGE_SECONDS * 4800)

\* A series of the store after a frame added point to it: nothing but the
\* stale points purged, then the cap.
Purged(series, point, now, max) ==
  IF Len(Fresh(Append(series, point), now)) > max
    THEN SliceLast(Fresh(Append(series, point), now), max)
    ELSE Fresh(Append(series, point), now)

\* C30: a cleanup pass of the store removes a point if and only if its sample
\* time is more than MAX_DATA_AGE_SECONDS behind the simulation time at which
\* the pass runs, so the point just added is never removed: after a frame
\* that adds points with a cleanup pass, every trail is the old trail with
\* the new point, less the stale points and cut to the cap.
C30_CleanupPurgesOnlyStale ==
  [][(/\ store'.frameCount = store.frameCount + 1
      /\ store'.frameCount % 2 = 0
      /\ store'.frameCount % CLEANUP_INTERVAL_FRAMES = 0
      /\ stepCount' > stepCount) =>
       \A i \in DOMAIN returned'[1].positions :
         /\ i \in DOMAIN store'.trails
         /\ store'.trails[i] =
              Purged(IF i \in DOMAIN store.trails
                       THEN store.trails[i] ELSE <<>>,
                     TrailPoints(returned'[1], getEnergy(sim'))[i],
                     sim'.time, store.maxTrailLength)
         /\ Len(store'.trails[i]) > 0
         /\ store'.trails[i][Len(store'.trails[i])].time = sim'.time]_vars

====
